---- MODULE Spec2Model ----
(***************************************************************************)
(* Model of src/src/algorithm.ts: the Modified-Leitner flashcard functions *)
(* toBucketSets, getBucketRange, practice, update and computeProgress.     *)
(*                                                                         *)
(* A JavaScript Set is an object with identity, so the model keeps a heap  *)
(* of Set objects (reference -> set of cards).  A BucketMap is a sequence  *)
(* of entries [key, ref] in insertion order (the iteration order of a JS   *)
(* Map); an Array<Set<Flashcard>> is a sequence of references, TLA+ index  *)
(* i + 1 holding the element at JS index i.                                *)
(***************************************************************************)
EXTENDS Integers, Sequences, FiniteSets, TLC

\* ---------------------------------------------------------------- bounds
NumCards == 2
MaxBucket == 6
MaxUpdates == 2
MaxDay == 4

Cards == 1..NumCards

\* ------------------------------------------------------ program constants
\* AnswerDifficulty enumeration (imported from ./flashcards)
Wrong == "Wrong"
Hard == "Hard"
Easy == "Easy"
AnswerDifficulty == {Wrong, Hard, Easy}

\* the literal 4 of Math.min(4, currentBucket + 1)
TopBucket == 4

VARIABLES heap, buckets, arr, updates, call

vars == <<heap, buckets, arr, updates, call>>

\* ------------------------------------------------------------ heap helpers
Max(S) == CHOOSE x \in S : \A y \in S : y <= x

Min(S) == CHOOSE x \in S : \A y \in S : x <= y

\* `new Set()` executed n times: the n smallest references not in use
FreshRefs(h, n) ==
    LET pool == (1..(Cardinality(DOMAIN h) + n)) \ DOMAIN h
    IN  {r \in pool : Cardinality({q \in pool : q < r}) < n}

\* buckets.keys()
Keys(m) == {m[i].key : i \in DOMAIN m}

\* buckets.has(k)
Has(m, k) == k \in Keys(m)

\* buckets.get(k): the reference of the Set stored under key k
Get(m, k) == m[CHOOSE i \in DOMAIN m : m[i].key = k].ref

Refs(m) == {m[i].ref : i \in DOMAIN m}

ArrRefs(a) == {a[i] : i \in DOMAIN a}

\* what a reader of mapping m sees: for each key, the cards of its Set
Contents(h, m) == [k \in Keys(m) |-> h[Get(m, k)]]

\* Set objects no longer referenced are garbage
Collect(h, live) == [r \in live \cap DOMAIN h |-> h[r]]

\* --------------------------------------------------------------- update
\* a search that never finds the card
FindEntryNever(h, m, card) == 0

\* for (const [bucketNum, cardSet] of updatedBuckets.entries())
\*   if (cardSet.has(card)) ...break : position of the first entry whose
\* Set has the card, 0 when the loop ends without a hit
FindEntry(h, m, card) ==
    LET hits == {i \in DOMAIN m : card \in h[m[i].ref]}
    IN  IF hits = {} THEN 0 ELSE Min(hits)

\* the card is left in its old Set
DeleteCardSkipped(h, ref, card) == h

\* cardSet.delete(card)
DeleteCard(h, ref, card) == [h EXCEPT ![ref] = @ \ {card}]

\* Hard without Math.max(0, ...)
NewBucketHardUnclamped(difficulty, currentBucket) ==
    CASE difficulty = Wrong -> 0
      [] difficulty = Hard -> currentBucket - 1
      [] difficulty = Easy -> IF currentBucket + 1 < TopBucket THEN currentBucket + 1
                                                                ELSE TopBucket

\* Easy without Math.min(4, ...)
NewBucketEasyUnclamped(difficulty, currentBucket) ==
    CASE difficulty = Wrong -> 0
      [] difficulty = Hard -> IF currentBucket - 1 > 0 THEN currentBucket - 1 ELSE 0
      [] difficulty = Easy -> currentBucket + 1

\* switch (difficulty)
NewBucket(difficulty, currentBucket) ==
    CASE difficulty = Wrong -> 0
      [] difficulty = Hard -> IF currentBucket - 1 > 0 THEN currentBucket - 1 ELSE 0
      [] difficulty = Easy -> IF currentBucket + 1 < TopBucket THEN currentBucket + 1
                                                                ELSE TopBucket

\* update(buckets, card, difficulty): the returned map and the heap after
\* the call
update(h, m, card, difficulty) ==
    LET updatedBuckets == m
        found == FindEntry(h, updatedBuckets, card)
        h1 == IF found = 0 THEN h
              ELSE DeleteCard(h, updatedBuckets[found].ref, card)
        currentBucket == IF found = 0 THEN 0 ELSE updatedBuckets[found].key
        newBucket == NewBucket(difficulty, currentBucket)
        fresh == CHOOSE r \in FreshRefs(h1, 1) : TRUE
        withKey == IF Has(updatedBuckets, newBucket) THEN updatedBuckets
                   ELSE Append(updatedBuckets, [key |-> newBucket, ref |-> fresh])
        h2 == IF Has(updatedBuckets, newBucket) THEN h1
              ELSE h1 @@ (fresh :> {})
        h3 == [h2 EXCEPT ![Get(withKey, newBucket)] = @ \cup {card}]
    IN  [heap |-> h3, map |-> withKey]

\* ---------------------------------------------------------- toBucketSets
\* buckets.size - 1 taken for the largest key
MaxKeyBySize(m) == Cardinality(Keys(m)) - 1

\* Math.max(...buckets.keys(), -1)
MaxKey(m) == Max(Keys(m) \cup {-1})

\* an array one element too long
toBucketSetsTooLong(h, m) ==
    LET maxBucket == MaxKey(m) + 1
        fresh == FreshRefs(h, maxBucket + 1)
        nth(i) == CHOOSE r \in fresh : Cardinality({q \in fresh : q < r}) = i - 1
        bucketArray == [i \in 1..(maxBucket + 1) |->
                          IF Has(m, i - 1) THEN Get(m, i - 1) ELSE nth(i)]
    IN  [heap |-> h @@ [r \in fresh |-> {}], arr |-> bucketArray]

\* Array.from({length: maxBucket + 1}, () => new Set()), then
\* bucketArray[bucketNumber] = flashcardSet for every entry
toBucketSets(h, m) ==
    LET maxBucket == MaxKey(m)
        fresh == FreshRefs(h, maxBucket + 1)
        nth(i) == CHOOSE r \in fresh : Cardinality({q \in fresh : q < r}) = i - 1
        bucketArray == [i \in 1..(maxBucket + 1) |->
                          IF Has(m, i - 1) THEN Get(m, i - 1) ELSE nth(i)]
    IN  [heap |-> h @@ [r \in fresh |-> {}], arr |-> bucketArray]

\* -------------------------------------------------------- getBucketRange
\* bucket.size of every element
Sizes(h, a) == [i \in DOMAIN a |-> Cardinality(h[a[i]])]

\* buckets.findIndex(bucket => bucket.size > 0), scanning from JS index i
RECURSIVE FindIndex(_, _)
FindIndex(sizes, i) ==
    IF i >= Len(sizes) THEN -1
    ELSE IF sizes[i + 1] > 0 THEN i
    ELSE FindIndex(sizes, i + 1)

\* reduceRight without the foundIndex === -1 test: the last hit wins
RECURSIVE ReduceRightLastHit(_, _, _)
ReduceRightLastHit(sizes, index, foundIndex) ==
    IF index < 0 THEN foundIndex
    ELSE ReduceRightLastHit(sizes, index - 1,
                            IF sizes[index + 1] > 0 THEN index ELSE foundIndex)

\* buckets.reduceRight((foundIndex, bucket, index) =>
\*   foundIndex === -1 && bucket.size > 0 ? index : foundIndex, -1)
RECURSIVE ReduceRight(_, _, _)
ReduceRight(sizes, index, foundIndex) ==
    IF index < 0 THEN foundIndex
    ELSE ReduceRight(sizes, index - 1,
                     IF foundIndex = -1 /\ sizes[index + 1] > 0 THEN index
                                                                 ELSE foundIndex)

\* the result is {} for undefined, else a one-element set holding the object
getBucketRange(h, a) ==
    LET sizes == Sizes(h, a)
        minBucket == FindIndex(sizes, 0)
        maxBucket == ReduceRight(sizes, Len(sizes) - 1, -1)
    IN  IF minBucket = -1 THEN {}
        ELSE {[minBucket |-> minBucket, maxBucket |-> maxBucket]}

\* --------------------------------------------------------------- practice
\* const practiceBuckets = [0, 1, 2, 3, 4] (never read: the loop over it is
\* commented out)
practiceBuckets == <<0, 1, 2, 3, 4>>

\* practiceCards is created empty and returned as it is
practice(h, a, day) ==
    LET practiceCards == {}
    IN  practiceCards

\* -------------------------------------------------------- computeProgress
ArrayForm == "array"
MapForm == "map"

\* totalCards += bucketSize over a sequence of sizes
RECURSIVE SumSizes(_)
SumSizes(sizes) ==
    IF sizes = <<>> THEN 0 ELSE sizes[1] + SumSizes(Tail(sizes))

\* the Map path indexing bucketDistribution by entry position, not bucketNum
computeProgressByPosition(h, b) ==
    IF b.form = ArrayForm
    THEN [totalCards |-> SumSizes(Sizes(h, b.val)),
          bucketDistribution |-> [i \in 0..(Len(b.val) - 1) |-> Cardinality(h[b.val[i + 1]])]]
    ELSE IF b.form = MapForm
    THEN [totalCards |-> SumSizes([i \in DOMAIN b.val |-> Cardinality(h[b.val[i].ref])]),
          bucketDistribution |-> [i \in 0..(Len(b.val) - 1) |-> Cardinality(h[b.val[i + 1].ref])]]
    ELSE [totalCards |-> 0, bucketDistribution |-> <<>>]

\* computeProgress(buckets, history): b is the argument tagged with what
\* Array.isArray / instanceof Map find; bucketDistribution is a sparse JS
\* array, a function from the indices that were assigned
computeProgress(h, b) ==
    IF b.form = ArrayForm
    THEN [totalCards |-> SumSizes(Sizes(h, b.val)),
          bucketDistribution |-> [i \in 0..(Len(b.val) - 1) |-> Cardinality(h[b.val[i + 1]])]]
    ELSE IF b.form = MapForm
    THEN [totalCards |-> SumSizes([i \in DOMAIN b.val |-> Cardinality(h[b.val[i].ref])]),
          bucketDistribution |-> [k \in Keys(b.val) |-> Cardinality(h[Get(b.val, k)])]]
    ELSE [totalCards |-> 0, bucketDistribution |-> <<>>]

\* ----------------------------------------------------------------- state
\* heap     the live Set objects
\* buckets  the driver's current snapshot of the bucket map
\* arr      an array of Sets handed to getBucketRange and practice
\* updates  how many times the driver has called update
\* call     the last call: its arguments as they were and what it returned

\* the keys of K in increasing order
Ascending(K) ==
    CHOOSE s \in [1..Cardinality(K) -> K] :
        \A i, j \in 1..Cardinality(K) : i < j => s[i] < s[j]

\* a valid bucket map: every card in at most one bucket (loc = -1: in none)
\* and a Set object of its own under every key
Init ==
    \E loc \in [Cards -> -1..MaxBucket] :
      LET K == {loc[c] : c \in Cards} \ {-1}
          ks == Ascending(K)
      IN  /\ buckets = [i \in 1..Cardinality(K) |-> [key |-> ks[i], ref |-> i]]
          /\ heap = [i \in 1..Cardinality(K) |-> {c \in Cards : loc[c] = ks[i]}]
          /\ arr = <<>>
          /\ updates = 0
          /\ call = [op |-> "init"]

\* the Sets the driver can still reach: what the previous call returned is
\* dropped before the next call
Live == Collect(heap, Refs(buckets) \cup ArrRefs(arr))

\* buckets = update(buckets, card, difficulty): the driver replaces its
\* snapshot; call.m is the snapshot that was passed in
Update ==
    \E card \in Cards, difficulty \in AnswerDifficulty :
      LET r == update(Live, buckets, card, difficulty)
      IN  /\ updates < MaxUpdates
          /\ updates' = updates + 1
          /\ buckets' = r.map
          /\ heap' = r.heap
          /\ arr' = arr
          /\ call' = [op |-> "update", m |-> buckets,
                      before |-> Contents(heap, buckets),
                      card |-> card, difficulty |-> difficulty]

\* toBucketSets(buckets)
ToBucketSets ==
    LET r == toBucketSets(Live, buckets)
    IN  /\ UNCHANGED <<buckets, arr, updates>>
        /\ heap' = r.heap
        /\ call' = [op |-> "toBucketSets", m |-> buckets,
                    before |-> Contents(heap, buckets), ret |-> r.arr]

\* computeProgress(toBucketSets(buckets), null) and
\* computeProgress(buckets, null) on the same snapshot
ComputeProgress ==
    LET r == toBucketSets(Live, buckets)
    IN  /\ UNCHANGED <<buckets, arr, updates>>
        /\ heap' = r.heap
        /\ call' = [op |-> "computeProgress", arg |-> r.arr,
                    ofArray |-> computeProgress(r.heap, [form |-> ArrayForm, val |-> r.arr]),
                    ofMap |-> computeProgress(r.heap, [form |-> MapForm, val |-> buckets])]

Next ==
    \/ Update
    \/ ToBucketSets
    \/ ComputeProgress

Spec == Init /\ [][Next]_vars

\* ------------------------------------------------- the array-form functions
\* a valid array of Sets of any length up to MaxBucket + 1: every card in at
\* most one element (loc = -1: in none), a Set object of its own at every
\* index
InitArray ==
    \E n \in 0..(MaxBucket + 1) :
      \E loc \in [Cards -> -1..(n - 1)] :
        /\ arr = [i \in 1..n |-> i]
        /\ heap = [i \in 1..n |-> {c \in Cards : loc[c] = i - 1}]
        /\ buckets = <<>>
        /\ updates = 0
        /\ call = [op |-> "init"]

\* getBucketRange(arr)
GetBucketRange ==
    /\ UNCHANGED <<heap, buckets, arr, updates>>
    /\ call' = [op |-> "getBucketRange", ret |-> getBucketRange(heap, arr)]

\* practice(arr, day)
Practice ==
    \E day \in 0..MaxDay :
      /\ UNCHANGED <<heap, buckets, arr, updates>>
      /\ call' = [op |-> "practice", day |-> day, ret |-> practice(heap, arr, day)]

NextArray ==
    \/ GetBucketRange
    \/ Practice

SpecArray == InitArray /\ [][NextArray]_vars

\* ------------------------------------------------------------ properties
\* the buckets of a map view (key -> cards) that hold card
Where(view, card) == {k \in DOMAIN view : card \in view[k]}

\* the (index, card) memberships of a map view
Pairs(view) == UNION {{<<k, c>> : c \in view[k]} : k \in DOMAIN view}

\* the (index, card) memberships read from the non-empty elements of an array
ArrayPairs(h, a) == UNION {{<<i - 1, c>> : c \in h[a[i]]} : i \in DOMAIN a}

\* the driver's current snapshot as a reader sees it
Now == Contents(heap, buckets)

\* the bucket the card of the last update was in when update was called,
\* 0 when it was in none
Current == IF Where(call.before, call.card) = {} THEN 0
           ELSE Min(Where(call.before, call.card))

\* the destination the transition policy names
Destination ==
    CASE call.difficulty = Wrong -> 0
      [] call.difficulty = Hard -> Max({0, Current - 1})
      [] call.difficulty = Easy -> Min({4, Current + 1})

\* review intervals of buckets 1..4
ReviewInterval == <<4, 10, 30, 100>>

\* the buckets due on a day: bucket 0 always, bucket i when day mod r_i = 0
Due(day) == {0} \cup {i \in 1..4 : day % ReviewInterval[i] = 0}

\* C1: practice(buckets, day) returns exactly the union of the cards of the
\* due buckets: bucket 0 every day, bucket i in 1..4 when day mod r_i = 0;
\* cards of buckets above 4 are never returned.
C1_PracticeReturnsDue ==
    call.op = "practice" =>
        call.ret = UNION {heap[arr[i]] : i \in {j \in DOMAIN arr : j - 1 \in Due(call.day)}}

\* C2: update leaves the mapping it was given unmodified: every bucket index
\* of the input holds the same set of cards after the call as before it.
C2_InputUnmodified ==
    call.op = "update" => Contents(heap, call.m) = call.before

\* C3: the map update returns is the input with the card removed from its
\* current bucket (0 when it is in none) and placed in the destination
\* bucket (Wrong -> 0, Hard -> max(0, c - 1), Easy -> min(4, c + 1)); every
\* other card stays where it was.
C3_UpdateMovesCard ==
    call.op = "update" =>
        Pairs(Now) = (Pairs(call.before) \ {<<k, call.card>> : k \in DOMAIN call.before})
                         \cup {<<Destination, call.card>>}

C3_Witness ==
    /\ call.op = "update"
    /\ \/ call.difficulty = Hard /\ 0 \in Where(call.before, call.card)
       \/ call.difficulty = Easy /\ 4 \in Where(call.before, call.card)
    /\ \E c \in Cards \ {call.card} : Where(call.before, c) # {}

\* C4 as stated: the total card count is unchanged by update for every card,
\* whether or not it is in a bucket of the input.
C4_CountUnchanged ==
    call.op = "update" => Cardinality(Pairs(Now)) = Cardinality(Pairs(call.before))

\* C4 amended: the total card count is unchanged by update when the card is
\* in a bucket of the input, and grows by exactly one when it is in none.
C4_CountUnchangedForMember ==
    call.op = "update" =>
        Cardinality(Pairs(Now)) =
            Cardinality(Pairs(call.before))
                + (IF Where(call.before, call.card) = {} THEN 1 ELSE 0)

C4_Witness ==
    /\ call.op = "update"
    /\ updates = MaxUpdates
    /\ Where(call.before, call.card) # {}
    /\ Where(call.before, call.card) # Where(Now, call.card)
    /\ \E c \in Cards : Where(Now, c) = {}

\* C5: after any sequence of update calls, each applied to the map the
\* previous one returned, no card is in two buckets of the current map.
C5_Exclusivity ==
    \A c \in Cards : Cardinality(Where(Now, c)) <= 1

C5_Witness ==
    /\ call.op = "update"
    /\ updates = MaxUpdates
    /\ Where(call.before, call.card) # {}
    /\ Where(Now, call.card) # Where(call.before, call.card)
    /\ \A c \in Cards : Cardinality(Where(Now, c)) = 1

\* C6 as stated: after update the card is in a bucket with index in 0..4,
\* whatever non-negative bucket it came from.
C6_DestinationWithinRange ==
    call.op = "update" =>
        /\ Where(Now, call.card) # {}
        /\ Where(Now, call.card) \subseteq 0..4

\* C6 amended: after update the card is in a bucket with index in 0..4,
\* except that Hard on a card in a bucket c >= 6 puts it in bucket c - 1.
C6_DestinationWithinRangeUnlessHardAbove ==
    call.op = "update" =>
        /\ Where(Now, call.card) # {}
        /\ Where(Now, call.card) \subseteq
               (IF call.difficulty = Hard /\ Current >= 6 THEN {Current - 1} ELSE 0..4)

C6_Witness ==
    /\ call.op = "update"
    /\ call.difficulty = Easy
    /\ Current >= 5
    /\ Where(Now, call.card) = {4}

\* C7: toBucketSets(m) has length (largest key of m) + 1, 0 for the empty
\* map, with a Set at every index; the memberships read from it are those
\* of m; m is not modified.
C7_RoundTrip ==
    call.op = "toBucketSets" =>
        /\ Len(call.ret) = (IF DOMAIN call.before = {} THEN 0
                            ELSE Max(DOMAIN call.before) + 1)
        /\ \A i \in DOMAIN call.ret : call.ret[i] \in DOMAIN heap
        /\ ArrayPairs(heap, call.ret) = Pairs(call.before)
        /\ Contents(heap, call.m) = call.before

C7_Witness ==
    /\ call.op = "toBucketSets"
    /\ \E i, j \in DOMAIN call.before : i + 1 < j /\ i + 1 \notin DOMAIN call.before
    /\ Cardinality(Pairs(call.before)) >= 2

\* C8: getBucketRange returns undefined exactly when every Set of the array
\* is empty; otherwise minBucket is the smallest index with a non-empty Set
\* and maxBucket the largest.
C8_RangeIsMinMax ==
    call.op = "getBucketRange" =>
        LET nonEmpty == {i \in 0..(Len(arr) - 1) : heap[arr[i + 1]] # {}}
        IN  IF nonEmpty = {} THEN call.ret = {}
            ELSE call.ret = {[minBucket |-> Min(nonEmpty), maxBucket |-> Max(nonEmpty)]}

C8_Witness ==
    /\ call.op = "getBucketRange"
    /\ \E r \in call.ret : 0 < r.minBucket /\ r.minBucket < r.maxBucket
                           /\ r.maxBucket < Len(arr) - 1

\* C9: computeProgress of the array form and of the map form of the same
\* snapshot report the same totalCards, the sum of the set sizes, and the
\* same bucketDistribution count at every key of the map.
C9_ProgressEquivalence ==
    call.op = "computeProgress" =>
        /\ call.ofArray.totalCards = call.ofMap.totalCards
        /\ call.ofMap.totalCards = Cardinality(Pairs(Now))
        /\ \A k \in Keys(buckets) :
             /\ k \in DOMAIN call.ofArray.bucketDistribution
             /\ k \in DOMAIN call.ofMap.bucketDistribution
             /\ call.ofArray.bucketDistribution[k] = call.ofMap.bucketDistribution[k]

C9_Witness ==
    /\ call.op = "computeProgress"
    /\ updates = MaxUpdates
    /\ call.ofMap.totalCards = NumCards
    /\ \E k \in Keys(buckets) : k > 0 /\ k - 1 \notin Keys(buckets) /\ Now[k] # {}
    /\ \E k \in Keys(buckets) : Now[k] = {}

====
